---- MODULE Spec2Model ----
(***************************************************************************)
(* Model of code/Templates/Builder/builder.py (DNest4 model builder).      *)
(*                                                                         *)
(* Generated C++ text is a sequence of lines.  A line is a record          *)
(*   [ind, code, x, p]                                                      *)
(* where code is the line's template text as it appears in the source,     *)
(* x is what the token {x} stands for (the token itself until Node         *)
(* replaces it), p is what the parameter tokens ({a},{b} / {mu},{sigma} / *)
(* {formula} / {n} / {k}) stand for (empty until insert_parameters or the  *)
(* caller's replace has run), and ind counts the "    " prefixes added by  *)
(* Model.perturb and generate_cpp.                                         *)
(* Model.description is modelled character by character, because it cuts   *)
(* its text by a character count.                                          *)
(***************************************************************************)
EXTENDS Integers, Sequences, FiniteSets, TLC

VARIABLES nodes, last, memo, run

vars == <<nodes, last, memo, run>>

(***************************************************************************)
(* Text helpers                                                            *)
(***************************************************************************)
Digits == <<"0", "1", "2", "3", "4", "5", "6", "7", "8", "9">>

RECURSIVE Str(_)
\* str(n) of a non-negative int
Str(n) == IF n < 10 THEN Digits[n + 1] ELSE Str(n \div 10) \o Digits[(n % 10) + 1]

\* a template line nobody has substituted anything into yet
T(code) == [ind |-> 0, code |-> code, x |-> "{x}", p |-> <<>>]

\* a literal line of Model's own (no {x} in it)
Lit(code) == [ind |-> 0, code |-> code, x |-> "", p |-> <<>>]

\* ["    " + x for x in s.splitlines()]
Indent(s) == [i \in DOMAIN s |-> [s[i] EXCEPT !.ind = @ + 1]]

RECURSIVE CutChars(_, _)
\* s[0:-n] of a text kept as a sequence of pieces (single characters, and
\* names or values in one piece): whole pieces go while they fit in n
CutChars(s, n) ==
    IF n = 0 \/ s = <<>> THEN s
    ELSE LET t == s[Len(s)]
             front == SubSeq(s, 1, Len(s) - 1)
         IN  IF Len(t) <= n THEN CutChars(front, n - Len(t))
             ELSE Append(front, "<" \o t \o " cut by " \o Str(n) \o ">")

RECURSIVE IndentChars(_)
\* "\n".join(["    " + x for x in s.splitlines()]) of a text kept as pieces:
\* the pieces after the first "    "
IndentChars(s) ==
    IF s = <<>> THEN <<>>
    ELSE IF Head(s) = "\n"
         THEN (IF Tail(s) = <<>> THEN <<>> ELSE <<"\n", "    ">>) \o IndentChars(Tail(s))
         ELSE <<Head(s)>> \o IndentChars(Tail(s))

\* the ways a Python set can be iterated
Orders(S) ==
    {q \in [1..Cardinality(S) -> S] : \A i, j \in DOMAIN q : i # j => q[i] # q[j]}

RECURSIVE Flatten(_)
Flatten(ss) == IF ss = <<>> THEN <<>> ELSE Head(ss) \o Flatten(Tail(ss))

RECURSIVE OfType(_, _)
\* "for name in self.nodes: if node.node_type == t": the nodes of type t, in
\* registry order
OfType(ns, t) ==
    IF ns = <<>> THEN <<>>
    ELSE (IF Head(ns).node_type = t THEN <<Head(ns)>> ELSE <<>>) \o OfType(Tail(ns), t)

(***************************************************************************)
(* Distributions                                                           *)
(***************************************************************************)
None == [kind |-> "None", p |-> <<>>]

Uniform(a, b) == [kind |-> "Uniform", p |-> <<a, b>>]

LogUniform(a, b) == [kind |-> "LogUniform", p |-> <<a, b>>]

Normal(mu, sigma) == [kind |-> "Normal", p |-> <<mu, sigma>>]

Deterministic(formula) == [kind |-> "Deterministic", p |-> <<formula>>]

\* s.replace("{a}", str(self.a)).replace("{b}", str(self.b)) and its siblings
insert_parameters(self, s) == [i \in DOMAIN s |-> [s[i] EXCEPT !.p = self.p]]

UniformFromPrior(self) ==
    insert_parameters(self, << T("{x} = {a} + ({b} - ({a}))*rng.rand();") >>)

\* Uniform.perturb with a log_H statement before and after, as Normal.perturb has
UniformPerturbWithLogH(self) ==
    insert_parameters(self, << T("log_H -= -0.5*pow((({x}) - ({mu}))/({sigma}), 2);"),
                               T("{x} += ({b} - ({a}))*rng.randh();"),
                               T("wrap({x}, {a}, {b});"),
                               T("log_H += -0.5*pow((({x}) - ({mu}))/({sigma}), 2);") >>)

UniformPerturb(self) ==
    insert_parameters(self, << T("{x} += ({b} - ({a}))*rng.randh();"),
                               T("wrap({x}, {a}, {b});") >>)

UniformLogDensity(self) ==
    insert_parameters(self, << T("if({x} < ({a}) || {x} > ({b}))"),
                               T("    logp = -numeric_limits<double>::max();"),
                               T("logp += -log({b} - ({a}));") >>)

LogUniformFromPrior(self) ==
    insert_parameters(self, << T("{x} = exp(log({a}) + log(({b})/({a}))*rng.rand());") >>)

LogUniformPerturb(self) ==
    insert_parameters(self, << T("{x} = log({x});"),
                               T("{x} += log(({b})/({a}))*rng.randh();"),
                               T("wrap({x}, log({a}), log({b}));"),
                               T("{x} = exp({x});") >>)

LogUniformLogDensity(self) ==
    insert_parameters(self, << T("if({x} < ({a}) || {x} > ({b}))"),
                               T("    logp = -numeric_limits<double>::max();"),
                               T("logp += -log({x}) - log(({b})/({a}));") >>)

NormalFromPrior(self) ==
    insert_parameters(self, << T("{x} = {mu} + {sigma}*rng.randn();") >>)

\* Normal.perturb with the two log_H statements exchanged
NormalPerturbSwapped(self) ==
    insert_parameters(self, << T("log_H += -0.5*pow((({x}) - ({mu}))/({sigma}), 2);"),
                               T("{x} += ({sigma})*rng.randh();"),
                               T("log_H -= -0.5*pow((({x}) - ({mu}))/({sigma}), 2);") >>)

NormalPerturb(self) ==
    insert_parameters(self, << T("log_H -= -0.5*pow((({x}) - ({mu}))/({sigma}), 2);"),
                               T("{x} += ({sigma})*rng.randh();"),
                               T("log_H += -0.5*pow((({x}) - ({mu}))/({sigma}), 2);") >>)

NormalLogDensity(self) ==
    insert_parameters(self,
        << T("logp += -0.5*log(2*M_PI) - log({sigma}) - 0.5*pow((({x}) - ({mu}))/({sigma}), 2);") >>)

\* s.replace("{formula}", self.formula)
DeterministicFromPrior(self) == insert_parameters(self, << T("{x} = {formula};") >>)

DeterministicPerturb(self) == DeterministicFromPrior(self)

\* Which distributions have which method (None has none; Deterministic has
\* no log_density): calling a missing one raises AttributeError.
HasMethod(prior, m) ==
    /\ prior.kind # "None"
    /\ ~(prior.kind = "Deterministic" /\ m = "log_density")

PriorFromPrior(prior) ==
    CASE prior.kind = "Uniform"       -> UniformFromPrior(prior)
      [] prior.kind = "LogUniform"    -> LogUniformFromPrior(prior)
      [] prior.kind = "Normal"        -> NormalFromPrior(prior)
      [] prior.kind = "Deterministic" -> DeterministicFromPrior(prior)

PriorPerturb(prior) ==
    CASE prior.kind = "Uniform"       -> UniformPerturb(prior)
      [] prior.kind = "LogUniform"    -> LogUniformPerturb(prior)
      [] prior.kind = "Normal"        -> NormalPerturb(prior)
      [] prior.kind = "Deterministic" -> DeterministicPerturb(prior)

PriorLogDensity(prior) ==
    CASE prior.kind = "Uniform"       -> UniformLogDensity(prior)
      [] prior.kind = "LogUniform"    -> LogUniformLogDensity(prior)
      [] prior.kind = "Normal"        -> NormalLogDensity(prior)

(***************************************************************************)
(* NodeType and Node                                                       *)
(***************************************************************************)
NodeType == {"coordinate", "derived", "data", "prior_info"}

\* A name is kept parsed: "x" is [base |-> "x", sfx |-> <<>>] and "x[0][2]"
\* is [base |-> "x", sfx |-> <<0, 2>>].  NameStr is the string itself.
Name(base, sfx) == [base |-> base, sfx |-> sfx]

RECURSIVE SfxStr(_)
SfxStr(sfx) == IF sfx = <<>> THEN "" ELSE "[" \o Str(Head(sfx)) \o "]" \o SfxStr(Tail(sfx))

NameStr(name) == name.base \o SfxStr(name.sfx)

\* name.split("[")[0]
SplitBase(name) == name.base

Ok(v) == [raised |-> "", val |-> v]

Raise(e) == [raised |-> e, val |-> <<>>]

\* Node.__init__ without its assert
NodeInitNoAssert(dtype, name, prior, node_type, index) ==
    LET nm == IF index > 0 THEN Name(name.base, Append(name.sfx, index)) ELSE name
    IN  Ok([dtype |-> dtype, name |-> nm, index |-> index,
            prior |-> prior, node_type |-> node_type])

\* Node.__init__: the new Node, or AssertionError
NodeInit(dtype, name, prior, node_type, index) ==
    LET nm == IF index > 0 THEN Name(name.base, Append(name.sfx, index)) ELSE name
    IN  IF node_type = "prior_info" /\ prior # None
        THEN Raise("AssertionError")
        ELSE Ok([dtype |-> dtype, name |-> nm, index |-> index,
                 prior |-> prior, node_type |-> node_type])

\* .replace("{x}", self.name)
ReplaceX(s, name) ==
    [i \in DOMAIN s |-> IF s[i].x = "{x}" THEN [s[i] EXCEPT !.x = NameStr(name)] ELSE s[i]]

NodeFromPrior(node) == ReplaceX(PriorFromPrior(node.prior), node.name)

NodePerturb(node) == ReplaceX(PriorPerturb(node.prior), node.name)

NodeLogDensity(node) == ReplaceX(PriorLogDensity(node.prior), node.name)

(***************************************************************************)
(* Model: the registry is an OrderedDict, modelled as the sequence of its  *)
(* values in key order; the key of a value is its name.                    *)
(***************************************************************************)
Keys(ns) == {ns[i].name : i \in DOMAIN ns}

\* self.nodes[node.name] = node: a new key goes last, a known key keeps its place
add_node(ns, node) ==
    IF \E i \in DOMAIN ns : ns[i].name = node.name
    THEN [i \in DOMAIN ns |-> IF ns[i].name = node.name THEN node ELSE ns[i]]
    ELSE Append(ns, node)

\* from_prior with one loop over the registry instead of two
from_prior_one_loop(ns) ==
    LET cd == [i \in DOMAIN ns |->
                 IF ns[i].node_type \in {"coordinate", "derived"}
                 THEN NodeFromPrior(ns[i]) ELSE <<>>]
    IN  IF \E i \in DOMAIN ns : /\ ns[i].node_type \in {"coordinate", "derived"}
                                /\ ~HasMethod(ns[i].prior, "from_prior")
        THEN Raise("AttributeError")
        ELSE Ok(Flatten(cd))

from_prior(ns) ==
    LET cs == OfType(ns, "coordinate")
        ds == OfType(ns, "derived")
    IN  IF \E i \in DOMAIN ns : /\ ns[i].node_type \in {"coordinate", "derived"}
                                /\ ~HasMethod(ns[i].prior, "from_prior")
        THEN Raise("AttributeError")
        ELSE Ok(Flatten([j \in DOMAIN cs |-> NodeFromPrior(cs[j])])
                \o Flatten([j \in DOMAIN ds |-> NodeFromPrior(ds[j])]))

\* one "if(which == k) { ... }" block of Model.perturb
PerturbBlock(node, k) ==
    << [Lit("if(which == {k})") EXCEPT !.p = <<Str(k)>>], Lit("{") >>
    \o Indent(NodePerturb(node))
    \o << Lit("}") >>

\* perturb with k never incremented
perturb_same_k(ns) ==
    LET cs == OfType(ns, "coordinate")
        ds == OfType(ns, "derived")
        num_coords == Len(cs)
    IN  IF \/ \E i \in DOMAIN ns : /\ ns[i].node_type = "coordinate"
                                   /\ ~HasMethod(ns[i].prior, "perturb")
           \/ \E i \in DOMAIN ns : /\ ns[i].node_type = "derived"
                                   /\ ~HasMethod(ns[i].prior, "from_prior")
        THEN Raise("AttributeError")
        ELSE Ok(<< Lit("double log_H = 0.0;"),
                   [Lit("int which = rng.rand_int({n});") EXCEPT !.p = <<Str(num_coords)>>] >>
                \o Flatten([j \in DOMAIN cs |-> PerturbBlock(cs[j], 0)])
                \o Flatten([j \in DOMAIN ds |-> NodeFromPrior(ds[j])])
                \o << Lit("return log_H;") >>)

perturb(ns) ==
    LET cs == OfType(ns, "coordinate")
        ds == OfType(ns, "derived")
        num_coords == Len(cs)
    IN  IF \/ \E i \in DOMAIN ns : /\ ns[i].node_type = "coordinate"
                                   /\ ~HasMethod(ns[i].prior, "perturb")
           \/ \E i \in DOMAIN ns : /\ ns[i].node_type = "derived"
                                   /\ ~HasMethod(ns[i].prior, "from_prior")
        THEN Raise("AttributeError")
        ELSE Ok(<< Lit("double log_H = 0.0;"),
                   [Lit("int which = rng.rand_int({n});") EXCEPT !.p = <<Str(num_coords)>>] >>
                \o Flatten([j \in DOMAIN cs |-> PerturbBlock(cs[j], j - 1)])
                \o Flatten([j \in DOMAIN ds |-> NodeFromPrior(ds[j])])
                \o << Lit("return log_H;") >>)

print_code(ns) ==
    LET cs == OfType(ns, "coordinate")
    IN  Ok([j \in DOMAIN cs |->
              [Lit("out<<{x}<<\" \";") EXCEPT !.x = NameStr(cs[j].name)]])

\* log_likelihood that takes every node that has a log_density
log_likelihood_all(ns) ==
    LET ds == [i \in DOMAIN ns |->
                 IF HasMethod(ns[i].prior, "log_density") THEN NodeLogDensity(ns[i]) ELSE <<>>]
    IN  Ok(<< Lit("double logp = 0.0;"), Lit("") >>
           \o Flatten(ds)
           \o << Lit(""), Lit("return logp;") >>)

log_likelihood(ns) ==
    LET ds == OfType(ns, "data")
    IN  IF \E i \in DOMAIN ns : /\ ns[i].node_type = "data"
                                /\ ~HasMethod(ns[i].prior, "log_density")
        THEN Raise("AttributeError")
        ELSE Ok(<< Lit("double logp = 0.0;"), Lit("") >>
                \o Flatten([j \in DOMAIN ds |-> NodeLogDensity(ds[j])])
                \o << Lit(""), Lit("return logp;") >>)

\* 's += "' + str(node) + ', ";\n'
DescriptionLine(node) ==
    <<"s", " ", "+", "=", " ", "\"">> \o <<NameStr(node.name)>> \o <<",", " ", "\"", ";", "\n">>

description(ns) ==
    LET cs == OfType(ns, "coordinate")
        s0 == <<"s", "t", "r", "i", "n", "g", " ", "s", ";", "\n">>
        s1 == s0 \o Flatten([j \in DOMAIN cs |-> DescriptionLine(cs[j])])
        s2 == CutChars(s1, 5)
    IN  Ok(s2 \o <<"\"", ";">> \o <<"\n", "r", "e", "t", "u", "r", "n", " ", "s", ";">>)

get_vector_names(ns, node_type) ==
    {SplitBase(ns[i].name) :
        i \in {j \in DOMAIN ns : ns[j].node_type = node_type /\ ns[j].index # 0}}

get_scalar_names(ns, node_type) ==
    LET vecs == get_vector_names(ns, node_type)
    IN  {ns[i].name :
            i \in {j \in DOMAIN ns : /\ ns[j].node_type = node_type
                                     /\ SplitBase(ns[j].name) \notin vecs}}

\* vector_name is a string
get_vector_size(ns, vector_name) ==
    Cardinality({i \in DOMAIN ns : NameStr(ns[i].name) = vector_name})

\* self.nodes[key]
Lookup(ns, key) == ns[CHOOSE i \in DOMAIN ns : ns[i].name = key]

\* a declaration that never looks at the dtype
DeclarationDouble(ns, vec, head) ==
    [ind |-> 0, code |-> head \o "{T} {x};", x |-> vec, p |-> <<"<double>">>]

\* one line of the declarations of generate_h
Declaration(ns, vec, head) ==
    [ind |-> 0, code |-> head \o "{T} {x};", x |-> vec,
     p |-> <<IF Lookup(ns, Name(vec, <<0>>)).dtype = "int" THEN "<int>" ELSE "<double>">>]

KnownVecs(ns) == get_vector_names(ns, "data") \cup get_vector_names(ns, "prior_info")

UnknownVecs(ns) == get_vector_names(ns, "coordinate") \cup get_vector_names(ns, "derived")

\* generate_h up to its first open(): known and unknown are the orders in
\* which the two "for vec in vecs" loops meet the sets
HDeclarations(ns, known, unknown) ==
    IF \E vec \in KnownVecs(ns) \cup UnknownVecs(ns) : Name(vec, <<0>>) \notin Keys(ns)
    THEN Raise("KeyError")
    ELSE Ok([j \in DOMAIN known |->
                Declaration(ns, known[j], "        static const std::vector")]
            \o << Lit("") >>
            \o [j \in DOMAIN unknown |->
                Declaration(ns, unknown[j], "        std::vector")])

\* the "Prepare the data" loop of generate_cpp, for one entry d of data
DataLine(d) ==
    LET prefix == CASE d.type = "float64[]" -> <<"std::vector<double> MyModel::">>
                    [] d.type = "int64[]"   -> <<"std::vector<int> MyModel::">>
                    [] d.type = "float"     -> <<"double MyModel::">>
                    [] d.type = "int"       -> <<"int MyModel::">>
                    [] OTHER                -> <<>>
        body == Flatten([j \in DOMAIN d.value |-> <<d.value[j], ", ">>])
    IN  CutChars(<<"const ">> \o prefix \o <<d.name, "{">> \o body, 2) \o <<"};\n">>

the_data(data) == Flatten([j \in DOMAIN data |-> DataLine(data[j])])

\* the initialiser list of generate_cpp; vecs is the order the loop meets
initialiser_list(ns, vecs) ==
    CutChars(<<":">> \o Flatten([j \in DOMAIN vecs |->
                 <<vecs[j], "(", Str(get_vector_size(ns, vecs[j])), ")", ",">>]), 1)

\* generate_cpp up to its first open(): the text put into each slot
CppSlots(ns, data, vecs) ==
    LET fp == from_prior(ns)
        pt == perturb(ns)
        ll == log_likelihood(ns)
    IN  IF fp.raised # "" THEN fp
        ELSE IF pt.raised # "" THEN pt
        ELSE IF ll.raised # "" THEN ll
        ELSE Ok([FROM_PRIOR          |-> Indent(fp.val),
                 PERTURB             |-> Indent(pt.val),
                 LOG_LIKELIHOOD      |-> Indent(ll.val),
                 PRINT               |-> Indent(print_code(ns).val),
                 DESCRIPTION         |-> <<"    ">> \o IndentChars(description(ns).val),
                 STATIC_DECLARATIONS |-> the_data(data),
                 INITIALIZER_LIST    |-> initialiser_list(ns, vecs)])

(***************************************************************************)
(* State.                                                                  *)
(*   nodes  Model.nodes                                                    *)
(*   last   the latest call: what was called (op, arg), whether it raised, *)
(*          what it returned (val) and what it did to files and stdout (io)*)
(*   memo   the first query or pass called since the latest add_node, and  *)
(*          whether it has been repeated (kept only by the specification   *)
(*          that compares repeated calls)                                  *)
(*   run    an execution of generated perturb code (see below)             *)
(***************************************************************************)
Call(op, arg, res, io) ==
    [op |-> op, arg |-> arg, raised |-> res.raised, val |-> res.val, io |-> io]

NoCall == Call("", <<>>, Ok(<<>>), <<>>)

NoMemo == [call |-> NoCall, op |-> "", others |-> FALSE, again |-> FALSE]

NoRun == [pc |-> 0]

Init ==
    /\ nodes = <<>>
    /\ last = NoCall
    /\ memo = NoMemo
    /\ run = NoRun

\* Node(dtype, name, prior, node_type, index) for a record of the arguments
Construct(a) == NodeInit(a.dtype, a.name, a.prior, a.node_type, a.index)

\* model.add_node(Node(...))
AddNode(Args) ==
    \E a \in Args :
        /\ Construct(a).raised = ""
        /\ nodes' = add_node(nodes, Construct(a).val)
        /\ last' = Call("add_node", Construct(a).val, Ok(<<>>), <<>>)
        /\ memo' = NoMemo
        /\ UNCHANGED run

\* Node(...) raising: nothing is built, nothing is registered
NodeFails(Args) ==
    \E a \in Args :
        /\ Construct(a).raised # ""
        /\ last' = Call("Node", a, Construct(a), <<>>)
        /\ UNCHANGED <<nodes, memo, run>>

\* description() consuming the registry as it goes
RegistryAfterPop(op, ns) == IF op = "description" /\ ns # <<>> THEN Tail(ns) ELSE ns

\* What a pass or query leaves in self.nodes: none of them assigns to it or
\* to a node.
RegistryAfter(op, ns) == ns

\* memo after a call: the first call since the latest add_node is kept;
\* others tells that a different call followed it, again that the same call
\* was then made once more
Remember(m, c) ==
    IF m.op = "" THEN [call |-> c, op |-> c.op, others |-> FALSE, again |-> FALSE]
    ELSE IF c.op = m.op /\ c.arg = m.call.arg THEN [m EXCEPT !.again = m.others]
    ELSE [m EXCEPT !.others = TRUE]

\* a pass or query is called and returns (or raises)
Returns(keep, op, arg, res, io) ==
    /\ last' = Call(op, arg, res, io)
    /\ nodes' = RegistryAfter(op, nodes)
    /\ memo' = IF keep THEN Remember(memo, Call(op, arg, res, io)) ELSE memo
    /\ UNCHANGED run

FromPrior(keep) == Returns(keep, "from_prior", <<>>, from_prior(nodes), <<>>)

Perturb(keep) == Returns(keep, "perturb", <<>>, perturb(nodes), <<>>)

PrintCode(keep) == Returns(keep, "print_code", <<>>, print_code(nodes), <<>>)

Description(keep) == Returns(keep, "description", <<>>, description(nodes), <<>>)

LogLikelihood(keep) == Returns(keep, "log_likelihood", <<>>, log_likelihood(nodes), <<>>)

GetVectorNames(keep) ==
    \E t \in NodeType :
        Returns(keep, "get_vector_names", t, Ok(get_vector_names(nodes, t)), <<>>)

GetScalarNames(keep) ==
    \E t \in NodeType :
        Returns(keep, "get_scalar_names", t, Ok(get_scalar_names(nodes, t)), <<>>)

\* asked for a base name or for a full name of the registry
GetVectorSize(keep) ==
    \E k \in Keys(nodes) : \E v \in {SplitBase(k), NameStr(k)} :
        Returns(keep, "get_vector_size", v, Ok(get_vector_size(nodes, v)), <<>>)

GenerateH ==
    \E known \in Orders(KnownVecs(nodes)), unknown \in Orders(UnknownVecs(nodes)) :
        LET d == HDeclarations(nodes, known, unknown)
        IN  IF d.raised # ""
            THEN Returns(FALSE, "generate_h", <<>>, d, <<>>)
            ELSE Returns(FALSE, "generate_h", <<>>, Ok([DECLARATIONS |-> d.val]),
                         <<"read MyModel.h.template", "write MyModel.h">>)

GenerateCpp(Data) ==
    \E data \in Data, vecs \in Orders(UnknownVecs(nodes)) :
        LET r == CppSlots(nodes, data, vecs)
        IN  IF r.raised # ""
            THEN Returns(FALSE, "generate_cpp", data, r, <<>>)
            ELSE Returns(FALSE, "generate_cpp", data, r,
                         (IF \E j \in DOMAIN data : data[j].type = "other[]"
                          THEN <<"print Unsupported dtype.">> ELSE <<>>)
                         \o <<"read MyModel.cpp.template", "write MyModel.cpp">>)

Queries(keep) ==
    \/ FromPrior(keep)
    \/ Perturb(keep)
    \/ PrintCode(keep)
    \/ Description(keep)
    \/ LogLikelihood(keep)
    \/ GetVectorNames(keep)
    \/ GetScalarNames(keep)
    \/ GetVectorSize(keep)

(***************************************************************************)
(* Inputs                                                                  *)
(***************************************************************************)
Priors ==
    {None, Uniform("0", "10"), LogUniform("1", "100"), Normal("0", "1"), Normal("y", "1"),
     Deterministic("2*x")}

\* the distributions each kind of node is given here
PriorsFor(t) ==
    CASE t = "coordinate" -> {Uniform("0", "10"), LogUniform("1", "100"), Normal("0", "1"), None}
      [] t = "derived"    -> {Deterministic("2*x")}
      [] t = "data"       -> {Normal("y", "1"), Uniform("0", "10")}
      [] t = "prior_info" -> {None, Uniform("0", "10")}

ScalarArgs ==
    {a \in [dtype : {"float"}, name : {Name("x", <<>>), Name("y", <<>>), Name("z", <<>>)},
            prior : Priors, node_type : NodeType, index : {0}] :
        a.prior \in PriorsFor(a.node_type)}

DataInputs ==
    { << [name |-> "N", type |-> "int", value |-> <<"3">>] >>,
      << [name |-> "t", type |-> "float64[]", value |-> <<"0.5", "1.5">>],
         [name |-> "w", type |-> "other[]", value |-> <<"True">>] >> }

Next ==
    \/ AddNode(ScalarArgs)
    \/ NodeFails(ScalarArgs)
    \/ FromPrior(FALSE)
    \/ Perturb(FALSE)
    \/ PrintCode(FALSE)
    \/ Description(FALSE)
    \/ LogLikelihood(FALSE)

Spec == Init /\ [][Next]_vars

(***************************************************************************)
(* Vectors: x[1] .. x[MaxIndex] built as Node(float, "x", prior, type, i), *)
(* and the entry generate_h reads, built as Node(dtype, "x[0]", prior,     *)
(* type) -- the only way to have the key "x[0]".                           *)
(***************************************************************************)
MaxIndex == 2

VecPriorFor(t) ==
    CASE t = "coordinate" -> {Uniform("0", "10")}
      [] t = "data"       -> {Normal("y", "1")}
      [] t = "prior_info" -> {None}
      [] OTHER            -> {}

VecArgs ==
    {a \in [dtype : {"int", "float"}, name : {Name("x", <<>>), Name("x", <<0>>)},
            prior : Priors, node_type : NodeType, index : 0..MaxIndex] :
        /\ a.prior \in VecPriorFor(a.node_type)
        /\ a.name.sfx # <<>> => a.index = 0
        /\ a.name.sfx = <<>> => a.index > 0 /\ a.dtype = "float"}

NextVec ==
    \/ AddNode(VecArgs)
    \/ GetVectorNames(FALSE)
    \/ GetScalarNames(FALSE)
    \/ GetVectorSize(FALSE)
    \/ GenerateH
    \/ GenerateCpp(DataInputs)

SpecVec == Init /\ [][NextVec]_vars

(***************************************************************************)
(* Repeated calls: every query and pass, remembering the first one called  *)
(* since the latest add_node.                                              *)
(***************************************************************************)
IdemPriorFor(t) ==
    CASE t = "coordinate" -> {Uniform("0", "10")}
      [] t = "derived"    -> {Deterministic("2*x")}
      [] t = "data"       -> {Normal("y", "1")}
      [] OTHER            -> {}

IdemArgs ==
    {a \in [dtype : {"float"}, name : {Name("x", <<>>), Name("y", <<>>)},
            prior : Priors, node_type : NodeType, index : {0, 1}] :
        /\ a.prior \in IdemPriorFor(a.node_type)
        /\ a.name.base = "y" => a.index = 0}

NextIdem ==
    \/ AddNode(IdemArgs)
    \/ Queries(TRUE)

SpecIdem == Init /\ [][NextIdem]_vars

(***************************************************************************)
(* Running the generated perturb code.  Values are integers; log_H is kept *)
(* as the exact fraction H.num / H.den = 2 * log_H.                         *)
(*   run.pc     the line of run.prog to execute next (0: no run, -1: done) *)
(*   run.x      the current value of each coordinate, run.x0 the values    *)
(*              the run started from                                       *)
(***************************************************************************)
MaxVal == 1

MaxStep == 1

\* the value of a numeral of the generated code
NumeralVal(s) ==
    CASE s = "-1" -> -1
      [] s = "0"  -> 0
      [] s = "1"  -> 1
      [] s = "2"  -> 2

ExecArgs ==
    [dtype : {"float"}, name : {Name("x", <<>>), Name("y", <<>>)},
     prior : {Normal("0", "1"), Normal("1", "2"), Normal("-1", "2")},
     node_type : {"coordinate"}, index : {0}]

CoordinateNames(ns) == {NameStr(ns[i].name) : i \in {j \in DOMAIN ns : ns[j].node_type = "coordinate"}}

\* the compiled perturb() is entered with some values of the coordinates
StartRun ==
    /\ run = NoRun
    /\ last.op = "perturb" /\ last.raised = ""
    /\ CoordinateNames(nodes) # {}
    /\ \E x0 \in [CoordinateNames(nodes) -> -MaxVal..MaxVal] :
          run' = [pc |-> 1, prog |-> last.val, x |-> x0, x0 |-> x0,
                  which |-> -1, H |-> [num |-> 0, den |-> 1], set |-> FALSE]
    /\ UNCHANGED <<nodes, last, memo>>

Line == run.prog[run.pc]

Running == run.pc > 0

\* double log_H = 0.0;
ExecDeclare ==
    /\ Running /\ Line.code = "double log_H = 0.0;"
    /\ run' = [run EXCEPT !.pc = @ + 1, !.H = [num |-> 0, den |-> 1], !.set = TRUE]
    /\ UNCHANGED <<nodes, last, memo>>

\* int which = rng.rand_int({n});
ExecDraw ==
    /\ Running /\ Line.code = "int which = rng.rand_int({n});"
    /\ \E w \in 0..(NumeralVal(Line.p[1]) - 1) :
          run' = [run EXCEPT !.pc = @ + 1, !.which = w]
    /\ UNCHANGED <<nodes, last, memo>>

\* the line after the "}" that closes the block opened after line i
AfterBlock(prog, i) ==
    1 + CHOOSE j \in i..Len(prog) :
            /\ prog[j].code = "}"
            /\ \A k \in i..(j - 1) : prog[k].code # "}"

\* if(which == {k}) { ... }
ExecIf ==
    /\ Running /\ Line.code = "if(which == {k})"
    /\ run' = [run EXCEPT !.pc = IF run.which = NumeralVal(Line.p[1])
                                  THEN @ + 1 ELSE AfterBlock(run.prog, @)]
    /\ UNCHANGED <<nodes, last, memo>>

ExecBrace ==
    /\ Running /\ Line.code \in {"{", "}"}
    /\ run' = [run EXCEPT !.pc = @ + 1]
    /\ UNCHANGED <<nodes, last, memo>>

\* 2 * (-0.5*pow(((x) - (mu))/(sigma), 2)), as a fraction
TwiceQ(x, mu, sigma) == [num |-> -((x - mu) * (x - mu)), den |-> sigma * sigma]

FracAdd(a, b) == [num |-> a.num * b.den + b.num * a.den, den |-> a.den * b.den]

FracNeg(a) == [num |-> -a.num, den |-> a.den]

FracEq(a, b) == a.num * b.den = b.num * a.den

\* log_H -= -0.5*pow((({x}) - ({mu}))/({sigma}), 2);
ExecSubQ ==
    /\ Running /\ Line.code = "log_H -= -0.5*pow((({x}) - ({mu}))/({sigma}), 2);"
    /\ run' = [run EXCEPT !.pc = @ + 1,
                          !.H = FracAdd(@, FracNeg(TwiceQ(run.x[Line.x], NumeralVal(Line.p[1]),
                                                          NumeralVal(Line.p[2]))))]
    /\ UNCHANGED <<nodes, last, memo>>

\* log_H += -0.5*pow((({x}) - ({mu}))/({sigma}), 2);
ExecAddQ ==
    /\ Running /\ Line.code = "log_H += -0.5*pow((({x}) - ({mu}))/({sigma}), 2);"
    /\ run' = [run EXCEPT !.pc = @ + 1,
                          !.H = FracAdd(@, TwiceQ(run.x[Line.x], NumeralVal(Line.p[1]),
                                                  NumeralVal(Line.p[2])))]
    /\ UNCHANGED <<nodes, last, memo>>

\* {x} += ({sigma})*rng.randh();  with randh() drawing a whole number
ExecStep ==
    /\ Running /\ Line.code = "{x} += ({sigma})*rng.randh();"
    /\ \E randh \in -MaxStep..MaxStep :
          run' = [run EXCEPT !.pc = @ + 1,
                            !.x[Line.x] = @ + NumeralVal(Line.p[2]) * randh]
    /\ UNCHANGED <<nodes, last, memo>>

\* return log_H;
ExecReturn ==
    /\ Running /\ Line.code = "return log_H;"
    /\ run' = [run EXCEPT !.pc = -1]
    /\ UNCHANGED <<nodes, last, memo>>

NextExec ==
    \/ run = NoRun /\ AddNode(ExecArgs)
    \/ run = NoRun /\ Perturb(FALSE)
    \/ StartRun
    \/ ExecDeclare
    \/ ExecDraw
    \/ ExecIf
    \/ ExecBrace
    \/ ExecSubQ
    \/ ExecStep
    \/ ExecAddQ
    \/ ExecReturn

SpecExec == Init /\ [][NextExec]_vars

(***************************************************************************)
(* Properties.  What they need of the registry is read off positions, not  *)
(* through the operators the passes are built from.                        *)
(***************************************************************************)
\* the registry positions of the nodes of type t
PosOfType(t) == {k \in DOMAIN nodes : nodes[k].node_type = t}

\* the registry position of the r-th node of type t (r = 1, 2, ...)
Nth(t, r) ==
    CHOOSE k \in PosOfType(t) : Cardinality({j \in PosOfType(t) : j < k}) = r - 1

\* the registry position of the node called nm
PosOf(nm) == CHOOSE k \in DOMAIN nodes : NameStr(nodes[k].name) = nm

Returned(op) == last.op = op /\ last.raised = ""

\* C1: whenever from_prior returns, each line of its output is the
\* from_prior fragment of a Coordinate or Derived node, every such node has
\* exactly one line and Data and PriorInfo nodes none, no Derived line comes
\* before a Coordinate line, and lines of nodes of one type follow the
\* registration order.
C1_FromPriorOrder ==
    Returned("from_prior") =>
        LET out == last.val
        IN  /\ \A i \in DOMAIN out :
                  \E k \in PosOfType("coordinate") \cup PosOfType("derived") :
                      <<out[i]>> = NodeFromPrior(nodes[k])
            /\ \A k \in DOMAIN nodes :
                  Cardinality({i \in DOMAIN out : out[i].x = NameStr(nodes[k].name)})
                      = IF nodes[k].node_type \in {"coordinate", "derived"} THEN 1 ELSE 0
            /\ \A i, j \in DOMAIN out :
                  i < j =>
                      LET a == PosOf(out[i].x)
                          b == PosOf(out[j].x)
                      IN  /\ ~(nodes[a].node_type = "derived" /\ nodes[b].node_type = "coordinate")
                          /\ nodes[a].node_type = nodes[b].node_type => a < b

\* C1 witness: from_prior has returned for a registry in which a Derived node
\* was registered before a Coordinate node and a Data node sits between them
C1_Witness ==
    /\ Returned("from_prior")
    /\ Len(nodes) = 3
    /\ nodes[1].node_type = "derived"
    /\ nodes[2].node_type = "data"
    /\ nodes[3].node_type = "coordinate"
    /\ Len(last.val) = 2

\* the lines of the block that starts at line i of a perturb output, when it
\* is the block of the node at registry position k
IsBlockOf(out, i, k, r) ==
    LET frag == Indent(NodePerturb(nodes[k]))
    IN  /\ i + 2 + Len(frag) <= Len(out)
        /\ out[i] = [Lit("if(which == {k})") EXCEPT !.p = <<Str(r)>>]
        /\ out[i + 1] = Lit("{")
        /\ SubSeq(out, i + 2, i + 1 + Len(frag)) = frag
        /\ out[i + 2 + Len(frag)] = Lit("}")

\* the line after the block that starts at line i, for the node at position k
BlockEnd(i, k) == i + 3 + Len(NodePerturb(nodes[k]))

\* C2: whenever perturb returns, with n Coordinate nodes its output is the
\* log_H declaration, the draw of which over range n, n blocks of which the
\* one with rank r (0..n-1) is guarded by which == r and holds the perturb
\* fragment of the (r+1)-th Coordinate node, the from_prior line of every
\* Derived node in registration order, and "return log_H;" last.
C2_PerturbShape ==
    Returned("perturb") =>
        LET out == last.val
            n == Cardinality(PosOfType("coordinate"))
            d == Cardinality(PosOfType("derived"))
            ifs == {i \in DOMAIN out : out[i].code = "if(which == {k})"}
            rank(i) == Cardinality({j \in ifs : j < i})
        IN  /\ Len(out) >= 3 + d
            /\ out[1] = Lit("double log_H = 0.0;")
            /\ out[2] = [Lit("int which = rng.rand_int({n});") EXCEPT !.p = <<Str(n)>>]
            /\ Cardinality(ifs) = n
            /\ {out[i].p : i \in ifs} = {<<Str(r)>> : r \in 0..(n - 1)}
            /\ n > 0 => 3 \in ifs
            /\ n = 0 => Len(out) = 3 + d
            /\ \A i \in ifs :
                  LET k == Nth("coordinate", rank(i) + 1)
                  IN  /\ IsBlockOf(out, i, k, rank(i))
                      /\ IF rank(i) = n - 1 THEN BlockEnd(i, k) = Len(out) - d
                                            ELSE BlockEnd(i, k) \in ifs
            /\ \A r \in 1..d :
                  <<out[Len(out) - d - 1 + r]>> = NodeFromPrior(nodes[Nth("derived", r)])
            /\ out[Len(out)] = Lit("return log_H;")

\* C2 witness: perturb has returned for two Coordinate nodes with a Derived
\* node registered between them
C2_Witness ==
    /\ Returned("perturb")
    /\ Len(nodes) = 3
    /\ nodes[1].node_type = "coordinate"
    /\ nodes[2].node_type = "derived"
    /\ nodes[3].node_type = "coordinate"
    /\ nodes[1].prior.kind # nodes[3].prior.kind

\* the first line of the log_density fragment of the r-th Data node
RECURSIVE DensityStart(_)
DensityStart(r) ==
    IF r = 1 THEN 3
    ELSE DensityStart(r - 1) + Len(NodeLogDensity(nodes[Nth("data", r - 1)]))

\* log_likelihood's output is the accumulator, the log_density fragments of
\* the Data nodes alone, in registration order, and the return
LogLikelihoodShape ==
    Returned("log_likelihood") =>
        LET out == last.val
            d == Cardinality(PosOfType("data"))
        IN  /\ Len(out) = DensityStart(d + 1) + 1
            /\ out[1] = Lit("double logp = 0.0;")
            /\ out[2] = Lit("")
            /\ \A r \in 1..d :
                  LET frag == NodeLogDensity(nodes[Nth("data", r)])
                  IN  SubSeq(out, DensityStart(r), DensityStart(r) + Len(frag) - 1) = frag
            /\ out[Len(out) - 1] = Lit("")
            /\ out[Len(out)] = Lit("return logp;")

\* an add_node step that registers a PriorInfo or Coordinate node
AddsNonData == last'.op = "add_node" /\ last'.arg.node_type \in {"prior_info", "coordinate"}

\* the name being registered is that of a registered Data node
ReplacesData == \E k \in PosOfType("data") : nodes[k].name = last'.arg.name

\* C3 as claimed: log_likelihood has the Data-only shape, and registering any
\* PriorInfo or Coordinate node leaves what log_likelihood returns unchanged.
C3_Original ==
    /\ []LogLikelihoodShape
    /\ [][AddsNonData => log_likelihood(nodes') = log_likelihood(nodes)]_vars

\* C3 amended: the same, for a PriorInfo or Coordinate node whose name is not
\* the name of a registered Data node (add_node overwrites the entry of a
\* name that is registered).
C3_LogLikelihood ==
    /\ []LogLikelihoodShape
    /\ [][AddsNonData /\ ~ReplacesData
            => log_likelihood(nodes') = log_likelihood(nodes)]_vars

\* C3 witness: a Coordinate node has just been registered, under a new name,
\* in a registry that holds two Data nodes
C3_Witness ==
    /\ last.op = "add_node"
    /\ last.arg.node_type = "coordinate"
    /\ Len(nodes) = 3
    /\ nodes[3] = last.arg
    /\ nodes[1].node_type = "data"
    /\ nodes[2].node_type = "data"

\* the registry is base[1], ..., base[n] (n >= 1), each built by Node from the
\* name base and its index, all of one type
IsVectorOf(base) ==
    /\ nodes # <<>>
    /\ \A k \in DOMAIN nodes :
          /\ nodes[k].index > 0
          /\ nodes[k].name = Name(base, <<nodes[k].index>>)
          /\ nodes[k].node_type = nodes[1].node_type
    /\ {nodes[k].index : k \in DOMAIN nodes} = 1..Len(nodes)

\* C4 as claimed: with base[1..n] registered under one type, the vector names
\* of the type hold base, no scalar name of the type is base or a member of
\* it, get_vector_size(base) is n, and n is the size written for base into
\* the initialiser list.
C4_Original ==
    \A base \in {"x"} :
        IsVectorOf(base) =>
            /\ last.op = "get_vector_names" /\ last.arg = nodes[1].node_type
                  => base \in last.val
            /\ last.op = "get_scalar_names" /\ last.arg = nodes[1].node_type
                  => \A nm \in last.val : nm.base # base
            /\ last.op = "get_vector_size" /\ last.arg = base
                  => last.val = Len(nodes)
            /\ Returned("generate_cpp") /\ nodes[1].node_type = "coordinate"
                  => last.val.INITIALIZER_LIST = <<":", base, "(", Str(Len(nodes)), ")">>

\* C5: Node(...) raises exactly for type PriorInfo with a distribution, a
\* raising construction registers nothing, and every registered PriorInfo
\* node has no distribution.
C5_PriorInfoHasNoPrior ==
    /\ \A a \in ScalarArgs :
          (Construct(a).raised = "AssertionError")
              <=> (a.node_type = "prior_info" /\ a.prior.kind # "None")
    /\ \A a \in ScalarArgs :
          Construct(a).raised \in {"", "AssertionError"}
    /\ last.op = "Node" =>
          /\ last.raised = "AssertionError"
          /\ last.arg.node_type = "prior_info" /\ last.arg.prior.kind # "None"
          /\ \A k \in DOMAIN nodes :
                ~(nodes[k].name = last.arg.name /\ nodes[k].prior = last.arg.prior
                  /\ nodes[k].node_type = "prior_info")
    /\ \A k \in PosOfType("prior_info") : nodes[k].prior.kind = "None"

\* C5 witness: a PriorInfo construction with a distribution has just raised,
\* in a registry that holds a PriorInfo node and a Coordinate node without a
\* distribution
C5_Witness ==
    /\ last.op = "Node"
    /\ last.raised = "AssertionError"
    /\ \E k \in PosOfType("prior_info") : TRUE
    /\ \E k \in PosOfType("coordinate") : nodes[k].prior.kind = "None"

\* the statements of the source that accumulate into log_H
LogHSub == {"log_H -= -0.5*pow((({x}) - ({mu}))/({sigma}), 2);"}

LogHAdd == {"log_H += -0.5*pow((({x}) - ({mu}))/({sigma}), 2);"}

\* the code of the lines of the block of the node at position k in a perturb
\* output: the indented lines about that node, in order
RECURSIVE BlockCode(_, _)
BlockCode(out, nm) ==
    IF out = <<>> THEN <<>>
    ELSE (IF Head(out).ind = 1 /\ Head(out).x = nm THEN <<Head(out).code>> ELSE <<>>)
         \o BlockCode(Tail(out), nm)

BoundedPos == {k \in PosOfType("coordinate") : nodes[k].prior.kind \in {"Uniform", "LogUniform"}}

\* C6 as claimed: in a perturb output the block of every bounded-uniform or
\* log-uniform coordinate has a statement subtracting from log_H and, after
\* it, one adding to log_H.
C6_Original ==
    Returned("perturb") =>
        \A k \in BoundedPos :
            LET b == BlockCode(last.val, NameStr(nodes[k].name))
            IN  \E i, j \in DOMAIN b : i < j /\ b[i] \in LogHSub /\ b[j] \in LogHAdd

\* C6 amended: the perturb fragment of a bounded-uniform coordinate is the
\* increment and the wrap, that of a log-uniform coordinate the same between
\* a log and an exp, and neither has a statement on log_H; the fragment of a
\* Normal coordinate is the only one that has.
C6_BoundedPerturb ==
    Returned("perturb") =>
        \A k \in PosOfType("coordinate") :
            LET b == BlockCode(last.val, NameStr(nodes[k].name))
                onLogH == {i \in DOMAIN b : b[i] \in LogHSub \cup LogHAdd}
            IN  /\ nodes[k].prior.kind = "Uniform" =>
                      b = << "{x} += ({b} - ({a}))*rng.randh();", "wrap({x}, {a}, {b});" >>
                /\ nodes[k].prior.kind = "LogUniform" =>
                      b = << "{x} = log({x});", "{x} += log(({b})/({a}))*rng.randh();",
                             "wrap({x}, log({a}), log({b}));", "{x} = exp({x});" >>
                /\ (onLogH # {}) <=> nodes[k].prior.kind = "Normal"

\* C6 witness: perturb has returned for a bounded-uniform, a log-uniform and a
\* Normal coordinate
C6_Witness ==
    /\ Returned("perturb")
    /\ Len(nodes) = 3
    /\ {nodes[k].prior.kind : k \in PosOfType("coordinate")} = {"Uniform", "LogUniform", "Normal"}

\* the names among the pieces of a description
RECURSIVE NamesIn(_)
NamesIn(t) ==
    IF t = <<>> THEN <<>>
    ELSE (IF Head(t) \in {NameStr(nodes[k].name) : k \in DOMAIN nodes} THEN <<Head(t)>> ELSE <<>>)
         \o NamesIn(Tail(t))

\* C10 as claimed: for every model the description starts with "string s;",
\* ends with "return s;" and names, in between, the Coordinate nodes in
\* registration order and no other node.
C10_Original ==
    Returned("description") =>
        LET out == last.val
            n == Cardinality(PosOfType("coordinate"))
        IN  /\ Len(out) >= 19
            /\ SubSeq(out, 1, 9) = <<"s", "t", "r", "i", "n", "g", " ", "s", ";">>
            /\ SubSeq(out, Len(out) - 8, Len(out)) = <<"r", "e", "t", "u", "r", "n", " ", "s", ";">>
            /\ NamesIn(SubSeq(out, 10, Len(out) - 9))
                  = [r \in 1..n |-> NameStr(nodes[Nth("coordinate", r)].name)]

\* C7: in the code that runs, the block of every Normal coordinate is three
\* statements (log_H update, mutation, log_H update)
NormalBlocks ==
    run.pc # 0 =>
        \A k \in PosOfType("coordinate") :
            BlockCode(run.prog, NameStr(nodes[k].name))
                = << "log_H -= -0.5*pow((({x}) - ({mu}))/({sigma}), 2);",
                     "{x} += ({sigma})*rng.randh();",
                     "log_H += -0.5*pow((({x}) - ({mu}))/({sigma}), 2);" >>

Done == run.pc = -1

\* the coordinate a finished run has perturbed
Perturbed == nodes[Nth("coordinate", run.which + 1)]

\* 2 * (q(new) - q(old)) for the coordinate a finished run has perturbed,
\* q(v) = -0.5*((v - mu)/sigma)^2
TwiceDelta ==
    LET nm == NameStr(Perturbed.name)
        mu == NumeralVal(Perturbed.prior.p[1])
        sigma == NumeralVal(Perturbed.prior.p[2])
    IN  FracAdd(TwiceQ(run.x[nm], mu, sigma), FracNeg(TwiceQ(run.x0[nm], mu, sigma)))

\* C7 as claimed: the fragment is the three statements, and run from
\* log_H = 0 they leave log_H = -(q(new) - q(old)).
C7_Original ==
    /\ NormalBlocks
    /\ Done => FracEq(run.H, FracNeg(TwiceDelta))

\* C7 amended: the fragment is the three statements, and run from log_H = 0
\* they leave log_H = q(new) - q(old), the density delta itself.
C7_NormalLogH ==
    /\ NormalBlocks
    /\ Done => FracEq(run.H, TwiceDelta)

\* C7 witness: a run over two Normal coordinates has returned after moving
\* the second one to a value of another density
C7_Witness ==
    /\ Done
    /\ Len(nodes) = 2
    /\ run.which = 1
    /\ run.set
    /\ TwiceDelta.num # 0

BasesOf(ts) ==
    {nodes[k].name.base : k \in {j \in DOMAIN nodes : nodes[j].node_type \in ts /\ nodes[j].index # 0}}

KnownBases == BasesOf({"data", "prior_info"})

UnknownBases == BasesOf({"coordinate", "derived"})

\* the declarations of base b in a declarations block, by their first words
DeclsOf(out, head, b) == {i \in DOMAIN out : out[i].code = head \o "{T} {x};" /\ out[i].x = b}

\* the element type generate_h is to write for base b
TypeOf(b) ==
    LET e == CHOOSE k \in DOMAIN nodes : nodes[k].name = Name(b, <<0>>)
    IN  IF nodes[e].dtype = "int" THEN "<int>" ELSE "<double>"

HasZeroEntry(b) == \E k \in DOMAIN nodes : nodes[k].name = Name(b, <<0>>)

\* a node built with index 0 keeps the name it was given
IndexZeroKeepsName ==
    \A a \in VecArgs \cup ScalarArgs :
        a.index = 0 => /\ Construct(a).raised = "" => Construct(a).val.name = a.name
                       /\ Construct(a).raised = "" =>
                             Construct(a).val.name # Name(a.name.base, Append(a.name.sfx, 0))

\* C9 as claimed: generate_h fails with a lookup error, touching no file, when
\* a vector group has no base[0] entry; otherwise the declarations are one
\* per distinct vector group (base name), typed by the base[0] entry.
C9_Original ==
    /\ IndexZeroKeepsName
    /\ last.op = "generate_h" =>
          IF \E b \in KnownBases \cup UnknownBases : ~HasZeroEntry(b)
          THEN last.raised = "KeyError" /\ last.io = <<>>
          ELSE /\ last.raised = ""
               /\ Cardinality({i \in DOMAIN last.val.DECLARATIONS :
                                  last.val.DECLARATIONS[i] # Lit("")})
                     = Cardinality(KnownBases \cup UnknownBases)

\* C9 amended: ... otherwise the declarations are one static const vector per
\* distinct base name among the Data and PriorInfo vector groups, a blank
\* line, and one vector per distinct base name among the Coordinate and
\* Derived vector groups, each typed by its base[0] entry; a base name that
\* is a vector group on both sides is declared twice.
C9_GenerateH ==
    /\ IndexZeroKeepsName
    /\ last.op = "generate_h" =>
          IF \E b \in KnownBases \cup UnknownBases : ~HasZeroEntry(b)
          THEN last.raised = "KeyError" /\ last.io = <<>>
          ELSE LET out == last.val.DECLARATIONS
                   known(b) == DeclsOf(out, "        static const std::vector", b)
                   unknown(b) == DeclsOf(out, "        std::vector", b)
               IN  /\ last.raised = ""
                   /\ last.io = <<"read MyModel.h.template", "write MyModel.h">>
                   /\ Len(out) = Cardinality(KnownBases) + 1 + Cardinality(UnknownBases)
                   /\ out[Cardinality(KnownBases) + 1] = Lit("")
                   /\ \A b \in KnownBases :
                         /\ Cardinality(known(b)) = 1
                         /\ \A i \in known(b) : i <= Cardinality(KnownBases) /\ out[i].p = <<TypeOf(b)>>
                   /\ \A b \in UnknownBases :
                         /\ Cardinality(unknown(b)) = 1
                         /\ \A i \in unknown(b) : i > Cardinality(KnownBases) + 1 /\ out[i].p = <<TypeOf(b)>>

\* C9 witness: generate_h has returned for a base that is a Data vector and a
\* Coordinate vector, with an int base[0] entry
C9_Witness ==
    /\ Returned("generate_h")
    /\ "x" \in KnownBases \cap UnknownBases
    /\ TypeOf("x") = "<int>"

====
